---- MODULE Spec2Model ----
(***************************************************************************)
(* A model of turing.py: the rule-file reader (_read_rules), the loading   *)
(* of a machine from a rule file (the __main__ block) and the execution    *)
(* engine (TuringMachine: tape setter, reset, find_rule, step, run).       *)
(*                                                                         *)
(* Text is a sequence of one-character strings; a symbol token, a state    *)
(* label and a tape symbol are Python strings, modelled as sequences of    *)
(* characters (the label "1" is <<"1">>, the direction "-1" is             *)
(* <<"-", "1">>).  A rule is a 5-tuple of such strings, as the reader      *)
(* returns it.                                                             *)
(***************************************************************************)
EXTENDS Integers, Sequences, FiniteSets, TLC

VARIABLES
    \* ---- _read_rules ----
    text,        \* the contents of the open file handed to _read_rules
    pos,         \* number of characters of the file already iterated over
    reader,      \* the locals of _read_rules shared with state_reader
    outcome,     \* what _read_rules did: still running, returned, or raised
    \* ---- __main__ and TuringMachine ----
    file,        \* the contents of the rule file named on the command line
    rules,       \* TuringMachine.rules
    STATE_INIT,  \* TuringMachine.STATE_INIT (instance attribute after load)
    STATE_HALT,  \* TuringMachine.STATE_HALT
    state,       \* TuringMachine.state
    head,        \* TuringMachine.head
    rule,        \* TuringMachine.rule
    tape,        \* TuringMachine._tape
    stepc,       \* TuringMachine.stepc
    head_moves,  \* TuringMachine.head_moves
    path,        \* TuringMachine.path
    pc,          \* where the caller of the machine is
    call,        \* the last call made on the machine, with its argument
    result,      \* how that call ended: completed, returned or the exception
    exc_value    \* RuleNotFound.value of the exception raised, else None

readerVars == <<text, pos, reader, outcome>>
engineVars == <<file, rules, STATE_INIT, STATE_HALT, state, head, rule, tape,
                stepc, head_moves, path, pc, call, result, exc_value>>
vars == <<text, pos, reader, outcome, file, rules, STATE_INIT, STATE_HALT,
          state, head, rule, tape, stepc, head_moves, path, pc, call, result,
          exc_value>>

(***************************************************************************)
(* Bounds of the model.                                                    *)
(***************************************************************************)
MaxChunks == 5     \* pieces a rule-file text is put together from
MaxRules == 2      \* rule lines in a rule file given to the machine
MaxTape == 2       \* length of an input string assigned as tape
MaxSteps == 3      \* calls of step() after one tape assignment
MaxOnes == 6       \* symbols '1' on the tape of the unary increment machine

(***************************************************************************)
(* Characters.                                                             *)
(***************************************************************************)
Digits == {"0", "1", "2"}
Letters == {"a", "h", "i", "k", "l", "n", "t", "v", "x", "z",
            "A", "H", "I", "K", "L", "N", "T", "Z"}
\* the characters of the model that the regular expression \w matches
WordChars == Digits \cup Letters \cup {"_"}
\* the characters of the model that the regular expression \s matches
SpaceChars == {" ", "\n"}

\* match("[-\w\*]", char)
IsSymbolChar(c) == c \in WordChars \cup {"-", "*"}

\* match("[^\s\:]", char)
IsValueChar(c) == c \notin SpaceChars \cup {":"}

\* str.lower() on one character
LowerChar(c) ==
    CASE c = "A" -> "a"
      [] c = "H" -> "h"
      [] c = "I" -> "i"
      [] c = "K" -> "k"
      [] c = "L" -> "l"
      [] c = "N" -> "n"
      [] c = "T" -> "t"
      [] c = "Z" -> "z"
      [] OTHER -> c

\* str.lower()
Lower(s) == [i \in 1..Len(s) |-> LowerChar(s[i])]

\* the value of `char` before the loop over the file has bound it
Unbound == "<unbound>"

\* a dict: a function whose domain is the set of its keys
EmptyDict == [k \in {} |-> <<>>]

\* d[k] = v on a dict
DictSet(d, k, v) == [j \in DOMAIN d \cup {k} |-> IF j = k THEN v ELSE d[j]]

(***************************************************************************)
(* _read_rules: the locals at entry, and state_reader.                     *)
(***************************************************************************)
ReaderInit ==
    [rules |-> <<>>, cfg |-> EmptyDict, tup_buf |-> <<>>, sym_buf |-> <<>>,
     cfg_buf |-> <<>>, symc |-> 0, state |-> "std", eof |-> FALSE,
     char |-> Unbound]

\* a flush that tests for a full tuple before it appends the symbol
FlushSymbol_late(s) ==
    LET full == Len(s.tup_buf) = 5
    IN  [s EXCEPT !.sym_buf = <<>>,
                  !.symc = @ + 1,
                  !.tup_buf = IF full THEN <<s.sym_buf>>
                              ELSE Append(@, s.sym_buf),
                  !.rules = IF full THEN Append(@, s.tup_buf) ELSE @]

\* the branch `elif sym_buf:` of the 'std' block: a rule symbol is complete
FlushSymbol(s) ==
    LET tb == Append(s.tup_buf, s.sym_buf)
    IN  [s EXCEPT !.sym_buf = <<>>,
                  !.symc = @ + 1,
                  !.tup_buf = IF Len(tb) = 5 THEN <<>> ELSE tb,
                  !.rules = IF Len(tb) = 5 THEN Append(@, tb) ELSE @]

\* the block `if state == 'std':`
StdBlock(s) ==
    IF IsSymbolChar(s.char) /\ ~s.eof
      THEN [s EXCEPT !.sym_buf = Append(@, s.char)]
    ELSE IF s.char = ":" /\ ~s.eof
      THEN [s EXCEPT !.cfg_buf = Lower(s.sym_buf), !.sym_buf = <<>>,
                     !.state = "cfg"]
    ELSE IF s.sym_buf # <<>>
      THEN FlushSymbol(s)
    ELSE IF s.char = "#"
      THEN [s EXCEPT !.state = "cmt"]
    ELSE s

\* a 'cfg' block in which the first value given to a key is kept
CfgBlock_keep_first(s) ==
    IF IsValueChar(s.char) /\ ~s.eof
      THEN [s EXCEPT !.sym_buf = Append(@, s.char)]
    ELSE IF s.sym_buf # <<>>
      THEN [s EXCEPT !.cfg = IF s.cfg_buf \in DOMAIN @ THEN @
                             ELSE DictSet(@, s.cfg_buf, s.sym_buf),
                     !.cfg_buf = <<>>, !.sym_buf = <<>>, !.state = "std"]
    ELSE s

\* the block `if state == 'cfg':`
CfgBlock(s) ==
    IF IsValueChar(s.char) /\ ~s.eof
      THEN [s EXCEPT !.sym_buf = Append(@, s.char)]
    ELSE IF s.sym_buf # <<>>
      THEN [s EXCEPT !.cfg = DictSet(@, s.cfg_buf, s.sym_buf),
                     !.cfg_buf = <<>>, !.sym_buf = <<>>, !.state = "std"]
    ELSE s

\* the block `elif state == 'cmt':`
CmtBlock(s) ==
    IF s.char = "\n" THEN [s EXCEPT !.state = "std"] ELSE s

\* state_reader(): the 'std' block runs first; the 'cfg' test that follows
\* is a fresh `if`, so it sees the state the 'std' block has just set, and
\* the 'cmt' test is its `elif`.
state_reader(s) ==
    LET t == IF s.state = "std" THEN StdBlock(s) ELSE s
    IN  IF t.state = "cfg" THEN CfgBlock(t)
        ELSE IF t.state = "cmt" THEN CmtBlock(t)
        ELSE t

\* one iteration of `for char in line`: bind char, call state_reader
ReadOne(s, c) == state_reader([s EXCEPT !.char = c])

\* the two nested loops over the whole file; they run while eof is unset
\* (testing it also has TLC evaluate the locals once per character)
RECURSIVE ReadAll(_, _)
ReadAll(s, t) ==
    IF s.eof \/ t = <<>> THEN s ELSE ReadAll(ReadOne(s, Head(t)), Tail(t))

\* `eof = True; state_reader()`.  With an empty file `char` was never bound
\* and the first test of state_reader raises NameError.
AtEof(s) ==
    IF s.char = Unbound
      THEN [kind |-> "NameError", s |-> [s EXCEPT !.eof = TRUE]]
      ELSE [kind |-> "ok", s |-> state_reader([s EXCEPT !.eof = TRUE])]

\* a validation that reports the size of the incomplete group
Validate_remainder(s) ==
    IF s.symc % 5 # 0
      THEN [kind |-> "IncorrectSymbolCount", count |-> s.symc % 5]
      ELSE [kind |-> "returned", rules |-> s.rules, cfg |-> s.cfg]

\* `if symc % 5: raise IncorrectSymbolCount(symc)` / `return (rules, cfg)`
Validate(s) ==
    IF s.symc % 5 # 0
      THEN [kind |-> "IncorrectSymbolCount", count |-> s.symc]
      ELSE [kind |-> "returned", rules |-> s.rules, cfg |-> s.cfg]

\* _read_rules(file) as a function of the file's contents
_read_rules(t) ==
    LET e == AtEof(ReadAll(ReaderInit, t))
    IN  IF e.kind = "NameError" THEN [kind |-> "NameError"]
        ELSE Validate(e.s)

(***************************************************************************)
(* Tape (tape.py): a two-way unbounded sequence of symbols, kept as the    *)
(* function from the positions stored so far to their symbols.             *)
(***************************************************************************)
\* the blank symbol
BLANK == <<"_">>

\* Tape(value): one cell per character of the input string, from position 0
TapeNew(value) == [p \in 0..(Len(value) - 1) |-> <<value[p + 1]>>]

\* `not tape`: the tape holds no symbol at all
TapeIsBlank(t) == DOMAIN t = {}

\* tape[position]
TapeGet(t, p) == IF p \in DOMAIN t THEN t[p] ELSE BLANK

\* tape[position] = symbol
TapeSet(t, p, sym) ==
    [q \in DOMAIN t \cup {p} |-> IF q = p THEN sym ELSE t[q]]

(***************************************************************************)
(* int(str) on a token: an optional '-', then decimal digits in which      *)
(* single underscores may separate digits.  Anything else is a ValueError. *)
(***************************************************************************)
DigitValue(c) == CASE c = "0" -> 0 [] c = "1" -> 1 [] c = "2" -> 2

RECURSIVE DecimalValue(_, _)
DecimalValue(s, acc) ==
    IF s = <<>> THEN acc
    ELSE IF Head(s) = "_" THEN DecimalValue(Tail(s), acc)
    ELSE DecimalValue(Tail(s), 10 * acc + DigitValue(Head(s)))

IsDecimal(s) ==
    /\ s # <<>>
    /\ s[1] \in Digits
    /\ s[Len(s)] \in Digits
    /\ \A i \in 1..Len(s) : s[i] \in Digits \cup {"_"}
    /\ \A i \in 1..(Len(s) - 1) : ~(s[i] = "_" /\ s[i + 1] = "_")

PyInt(s) ==
    LET neg == s # <<>> /\ s[1] = "-"
        body == IF neg THEN Tail(s) ELSE s
    IN  IF IsDecimal(body)
          THEN [ok |-> TRUE,
                val |-> IF neg THEN 0 - DecimalValue(body, 0)
                        ELSE DecimalValue(body, 0)]
          ELSE [ok |-> FALSE]

(***************************************************************************)
(* TuringMachine.                                                          *)
(***************************************************************************)
WILDCARD == <<"*">>
DEFAULT_STATE_INIT == <<"1">>
DEFAULT_STATE_HALT == <<"0">>
None == <<>>

\* the test of the loop in find_rule
RuleMatches(r, st, scan) ==
    r[1] = st /\ (r[2] = scan \/ r[2] = WILDCARD)

\* find_rule returning the last matching rule instead of the first
FindFrom_last(rs, i, st, scan) ==
    LET M == {j \in i..Len(rs) : RuleMatches(rs[j], st, scan)}
    IN  IF M = {} THEN 0 ELSE CHOOSE j \in M : \A k \in M : k <= j

\* the loop of find_rule from index i on: the index of the rule returned,
\* or 0 when the loop ends and RuleNotFound is raised
RECURSIVE FindFrom(_, _, _, _)
FindFrom(rs, i, st, scan) ==
    IF i > Len(rs) THEN 0
    ELSE IF RuleMatches(rs[i], st, scan) THEN i
    ELSE FindFrom(rs, i + 1, st, scan)

\* find_rule raising RuleNotFound with the pair the other way round
find_rule_swapped(rs, st, scan) ==
    LET i == FindFrom(rs, 1, st, scan)
    IN  IF i = 0 THEN [found |-> FALSE, value |-> <<scan, st>>]
        ELSE [found |-> TRUE, rule |-> rs[i]]

\* find_rule: the rule returned, or the value of the RuleNotFound raised
find_rule(rs, st, scan) ==
    LET i == FindFrom(rs, 1, st, scan)
    IN  IF i = 0 THEN [found |-> FALSE, value |-> <<st, scan>>]
        ELSE [found |-> TRUE, rule |-> rs[i]]

\* step() writing the rule's fourth field as it stands
Replace_literal(r, scan) == r[4]

\* `replace` in step(): what is written to the scanned cell
Replace(r, scan) == IF r[4] # WILDCARD THEN r[4] ELSE scan

(***************************************************************************)
(* The rule files and the input strings the machine is run on.             *)
(***************************************************************************)
\* the text of one rule line: the five tokens, blank-separated, and a newline
RuleLine(r) ==
    r[1] \o <<" ">> \o r[2] \o <<" ">> \o r[3] \o <<" ">> \o r[4] \o <<" ">>
         \o r[5] \o <<"\n">>

\* the rules a rule file is written from
RulePool ==
    { << <<"1">>, <<"1">>, <<"1">>, <<"1">>, <<"1">> >>,
      << <<"1">>, <<"_">>, <<"0">>, <<"1">>, <<"0">> >>,
      << <<"1">>, <<"*">>, <<"1">>, <<"*">>, <<"-", "1">> >>,
      << <<"1">>, <<"*">>, <<"0">>, <<"_">>, <<"2">> >>,
      << <<"0">>, <<"*">>, <<"1">>, <<"1">>, <<"0">> >>,
      << <<"1">>, <<"1">>, <<"1">>, <<"*">>, <<"x">> >>,
      << <<"A">>, <<"1">>, <<"0">>, <<"*">>, <<"1">> >>,
      << <<"0">>, <<"*">>, <<"Z">>, <<"_">>, <<"-", "2">> >> }

\* the configuration lines a rule file starts with
HeaderPool ==
    { <<>>,
      <<"i", "n", "i", "t", ":", "A", "\n">>,
      <<"i", "n", "i", "t", ":", "0", "\n">>,
      <<"h", "a", "l", "t", ":", " ", "Z", "\n">>,
      <<"I", "n", "i", "t", ":", "A", " ", "H", "A", "L", "T", ":", "Z", "\n">> }

RECURSIVE Concat(_)
Concat(ss) == IF ss = <<>> THEN <<>> ELSE Head(ss) \o Concat(Tail(ss))

RuleFiles ==
    { h \o Concat([i \in 1..Len(rs) |-> RuleLine(rs[i])]) :
        h \in HeaderPool,
        rs \in UNION { [1..n -> RulePool] : n \in 0..MaxRules } }

TapeChars == {"1", "_"}
TapeInputs == UNION { [1..n -> TapeChars] : n \in 0..MaxTape }

(***************************************************************************)
(* __main__: load the machine from the rule file.                          *)
(***************************************************************************)
KEY_INIT == <<"i", "n", "i", "t">>
KEY_HALT == <<"h", "a", "l", "t">>

\* `if 'init' in rules[1]: turing.STATE_INIT = rules[1]['init']`
LoadedInit(cfg) ==
    IF KEY_INIT \in DOMAIN cfg THEN cfg[KEY_INIT] ELSE DEFAULT_STATE_INIT

\* a load that leaves the halting label at its default
LoadedHalt_default(cfg) == DEFAULT_STATE_HALT

\* `if 'halt' in rules[1]: turing.STATE_HALT = rules[1]['halt']`
LoadedHalt(cfg) ==
    IF KEY_HALT \in DOMAIN cfg THEN cfg[KEY_HALT] ELSE DEFAULT_STATE_HALT

\* the class-level attributes a fresh TuringMachine reads through to
MachineDefaults ==
    /\ STATE_INIT = DEFAULT_STATE_INIT
    /\ STATE_HALT = DEFAULT_STATE_HALT
    /\ state = DEFAULT_STATE_INIT
    /\ head = DEFAULT_STATE_HALT
    /\ rule = None
    /\ tape = TapeNew(<<>>)
    /\ stepc = 0
    /\ head_moves = 0
    /\ path = <<>>

ReaderIdle ==
    /\ text = <<>>
    /\ pos = 0
    /\ reader = ReaderInit
    /\ outcome = [kind |-> "idle"]

Init ==
    /\ ReaderIdle
    /\ file \in RuleFiles
    /\ rules = <<>>
    /\ MachineDefaults
    /\ pc = "load"
    /\ call = [op |-> "none", arg |-> <<>>]
    /\ result = "none"
    /\ exc_value = None

\* rules = _read_rules(f); turing = TuringMachine(rules[0]); the overrides
Load ==
    /\ pc = "load"
    /\ LET r == _read_rules(file)
       IN  IF r.kind = "returned"
             THEN /\ rules' = r.rules
                  /\ STATE_INIT' = LoadedInit(r.cfg)
                  /\ STATE_HALT' = LoadedHalt(r.cfg)
                  /\ pc' = "idle"
                  /\ result' = "none"
             ELSE /\ pc' = "exit"
                  /\ result' = r.kind
                  /\ UNCHANGED <<rules, STATE_INIT, STATE_HALT>>
    /\ call' = [op |-> "load", arg |-> <<>>]
    /\ exc_value' = None
    /\ UNCHANGED <<file, state, head, rule, tape, stepc, head_moves, path>>
    /\ UNCHANGED readerVars

(***************************************************************************)
(* TuringMachine: the tape setter with reset(), step() and run().          *)
(***************************************************************************)
\* a reset() that keeps the counters of the previous run
Reset_keeps_counters ==
    /\ state' = STATE_INIT
    /\ head' = 0
    /\ rule' = None
    /\ UNCHANGED <<stepc, head_moves>>
    /\ path' = <<STATE_INIT>>

\* reset()
Reset ==
    /\ state' = STATE_INIT
    /\ head' = 0
    /\ rule' = None
    /\ stepc' = 0
    /\ head_moves' = 0
    /\ path' = <<STATE_INIT>>

\* turing.tape = value
AssignTape(value) ==
    /\ pc = "idle"
    /\ tape' = TapeNew(value)
    /\ Reset
    /\ call' = [op |-> "tape", arg |-> value]
    /\ result' = "none"
    /\ exc_value' = None
    /\ UNCHANGED <<file, rules, STATE_INIT, STATE_HALT, pc>>
    /\ UNCHANGED readerVars

\* a head that moves against the direction of the rule
NextHead_left(head_direction) == head - head_direction

\* `self.head += head_direction`
NextHead(head_direction) == head + head_direction

\* a counter of the moves to the right only
MovesAfter_right(head_direction) ==
    IF head_direction > 0 THEN head_moves + 1 ELSE head_moves

\* `if head_direction: self.head_moves += 1`
MovesAfter(head_direction) ==
    IF head_direction # 0 THEN head_moves + 1 ELSE head_moves

\* step() on a blank tape: `raise TapeBlank`
StepBlank ==
    /\ result' = "TapeBlank"
    /\ exc_value' = None
    /\ UNCHANGED <<state, head, rule, tape, stepc, head_moves, path>>

\* step() past the test for a blank tape
StepOnTape ==
    LET scan == TapeGet(tape, head)
        f == find_rule(rules, state, scan)
    IN  /\ stepc' = stepc + 1
        /\ IF ~f.found
             THEN /\ result' = "RuleNotFound"
                  /\ exc_value' = f.value
                  /\ UNCHANGED <<state, head, rule, tape, head_moves, path>>
             ELSE
               LET head_direction == PyInt(f.rule[5])
               IN  /\ rule' = f.rule
                   /\ tape' = TapeSet(tape, head, Replace(f.rule, scan))
                   /\ exc_value' = None
                   /\ IF ~head_direction.ok
                        THEN /\ result' = "ValueError"
                             /\ UNCHANGED <<state, head, head_moves, path>>
                        ELSE /\ state' = f.rule[3]
                             /\ head' = NextHead(head_direction.val)
                             /\ head_moves' = MovesAfter(head_direction.val)
                             /\ path' = Append(path, f.rule[3])
                             /\ result' = "none"

\* a step() that tests for the blank tape only after a rule was found
StepBody_lookup_first ==
    IF TapeIsBlank(tape) /\ find_rule(rules, state, BLANK).found
      THEN StepBlank
      ELSE StepOnTape

\* the body of step(); `result'` is "none" when it completes and the name of
\* the exception when it raises
StepBody == IF TapeIsBlank(tape) THEN StepBlank ELSE StepOnTape

\* a step() that returns at once when the machine has halted
StepWithin_halted_returns(limit) ==
    /\ pc = "idle"
    /\ stepc < limit
    /\ IF state = STATE_HALT
         THEN /\ result' = "none"
              /\ exc_value' = None
              /\ UNCHANGED <<state, head, rule, tape, stepc, head_moves, path>>
         ELSE StepBody
    /\ call' = [op |-> "step", arg |-> <<>>]
    /\ UNCHANGED <<file, rules, STATE_INIT, STATE_HALT, pc>>
    /\ UNCHANGED readerVars

\* step() called by a caller that makes at most `limit` calls per tape
StepWithin(limit) ==
    /\ pc = "idle"
    /\ stepc < limit
    /\ StepBody
    /\ call' = [op |-> "step", arg |-> <<>>]
    /\ UNCHANGED <<file, rules, STATE_INIT, STATE_HALT, pc>>
    /\ UNCHANGED readerVars

\* a caller invokes step()
Step == StepWithin(MaxSteps)

\* a caller invokes run()
RunCall ==
    /\ pc = "idle"
    /\ pc' = "run"
    /\ call' = [op |-> "run", arg |-> <<>>]
    /\ result' = "none"
    /\ exc_value' = None
    /\ UNCHANGED <<file, rules, STATE_INIT, STATE_HALT, state, head, rule,
                   tape, stepc, head_moves, path>>
    /\ UNCHANGED readerVars

\* a loop that tests for the halting label only after a first step
RunLoopTest_dowhile == stepc = 0 \/ state # STATE_HALT

\* the test of the loop of run()
RunLoopTest == state # STATE_HALT

\* one iteration of the loop of run(), in a run of at most `limit` steps;
\* an exception of step() leaves run()
RunStepWithin(limit) ==
    /\ pc = "run"
    /\ RunLoopTest
    /\ stepc < limit
    /\ StepBody
    /\ pc' = IF result' = "none" THEN "run" ELSE "idle"
    /\ UNCHANGED <<file, rules, STATE_INIT, STATE_HALT, call>>
    /\ UNCHANGED readerVars

RunStep == RunStepWithin(MaxSteps)

\* the loop test of run() fails: `return self._tape`
RunReturn ==
    /\ pc = "run"
    /\ ~RunLoopTest
    /\ pc' = "idle"
    /\ result' = "returned"
    /\ exc_value' = None
    /\ UNCHANGED <<file, rules, STATE_INIT, STATE_HALT, state, head, rule,
                   tape, stepc, head_moves, path, call>>
    /\ UNCHANGED readerVars

Next ==
    \/ Load
    \/ \E value \in TapeInputs : AssignTape(value)
    \/ Step
    \/ RunCall
    \/ RunStep
    \/ RunReturn

Spec == Init /\ [][Next]_vars

(***************************************************************************)
(* Properties of the engine, checked under Spec.                           *)
(***************************************************************************)
Sign(n) == IF n < 0 THEN -1 ELSE IF n > 0 THEN 1 ELSE 0

IsPrefix(h, f) == Len(h) <= Len(f) /\ SubSeq(f, 1, Len(h)) = h

\* a step() was invoked in this transition, directly or by run()
StepInvoked == call'.op \in {"step", "run"}

\* C1: a step() that raises RuleNotFound or TapeBlank leaves step_count,
\* head, current_state, path, last_rule and the tape as they were before
\* the call.
C1_FailedStepChangesNothing ==
    [][(StepInvoked /\ result' \in {"RuleNotFound", "TapeBlank"})
         => UNCHANGED <<stepc, head, state, path, rule, tape>>]_vars

\* state labels and scanned symbols find_rule is asked about
Labels == {<<"0">>, <<"1">>, <<"A">>, <<"Z">>}
Scans == {<<"0">>, <<"1">>, <<"_">>, <<"*">>}

\* C2: find_rule(state, symbol) returns the rule of smallest table index
\* among those whose from_state is state and whose match_symbol is symbol or
\* the wildcard, and raises RuleNotFound exactly when there is none.
C2_FirstMatchWins ==
    \A st \in Labels, scan \in Scans :
        LET M == {i \in 1..Len(rules) :
                     /\ rules[i][1] = st
                     /\ rules[i][2] \in {scan, WILDCARD}}
            f == find_rule(rules, st, scan)
        IN  IF M = {} THEN ~f.found
            ELSE /\ f.found
                 /\ f.rule = rules[CHOOSE i \in M : \A j \in M : i <= j]
                 /\ \A j \in M : f.rule # rules[j] => \E i \in M : i < j

\* C2 witness: the first step applied the specific-symbol rule placed first,
\* although the wildcard rule for the same state placed second also matched.
C2_Witness ==
    /\ Len(rules) = 2
    /\ rules[1][1] = rules[2][1]
    /\ rules[1][2] # WILDCARD
    /\ rules[2][2] = WILDCARD
    /\ rules[1] # rules[2]
    /\ stepc = 1
    /\ result = "none"
    /\ rule = rules[1]
    /\ path = <<rules[1][1], rules[1][3]>>

\* C3: every successful step() moves the head by the sign of the direction
\* of the rule applied, never by more than one cell.
C3_HeadMovesBySign ==
    [][(StepInvoked /\ stepc' = stepc + 1 /\ result' = "none")
         => head' = head + Sign(PyInt(rule'[5]).val)]_vars

\* C4: after a step() that applied a rule, the cell at the position the head
\* had before the step holds what it held before when the rule's
\* write_symbol is the wildcard, and the write_symbol otherwise.
C4_WildcardWriteKeepsCell ==
    [][(StepInvoked /\ stepc' = stepc + 1
          /\ result' \in {"none", "ValueError"})
         => TapeGet(tape', head) =
              IF rule'[4] = WILDCARD THEN TapeGet(tape, head)
              ELSE rule'[4]]_vars

\* C4 witness: a rule with a concrete match_symbol and the wildcard as
\* write_symbol was applied at cell 0, which still holds the symbol "1".
C4_Witness ==
    /\ result = "none"
    /\ stepc = 1
    /\ rule # None
    /\ rule[2] = <<"1">>
    /\ rule[4] = WILDCARD
    /\ TapeGet(tape, 0) = <<"1">>

\* C5: inside run(), a transition from a state equal to the halting label is
\* the return of run() and changes nothing of the machine, and a transition
\* from any other state is a step(), not a return.
C5_RunStopsAtHalt ==
    [][pc = "run"
         => IF state = STATE_HALT
              THEN /\ result' = "returned"
                   /\ pc' = "idle"
                   /\ UNCHANGED <<state, head, rule, tape, stepc,
                                  head_moves, path>>
              ELSE /\ result' # "returned"
                   /\ StepInvoked
                   /\ (result' = "none" => stepc' = stepc + 1)
                   /\ (pc' = "idle" <=> result' # "none")]_vars

\* C5 witness: run() has returned after at least one step, in the halting
\* state.
C5_Witness ==
    /\ call.op = "run"
    /\ result = "returned"
    /\ stepc >= 1
    /\ state = STATE_HALT
    /\ path[Len(path)] = STATE_HALT

\* the rule-file header that sets both labels
HeaderBoth ==
    <<"I", "n", "i", "t", ":", "A", " ", "H", "A", "L", "T", ":", "Z", "\n">>

\* C6: with init: A and halt: Z in the rule file, a tape assignment leaves
\* current_state = A and path = [A], and run() returns only in state Z, not
\* in the default halting state "0".
C6_ConfigOverride ==
    (IsPrefix(HeaderBoth, file) /\ pc \in {"idle", "run"})
      => /\ STATE_INIT = <<"A">>
         /\ STATE_HALT = <<"Z">>
         /\ (call.op = "tape" => state = <<"A">> /\ path = << <<"A">> >>)
         /\ (path # <<>> => path[1] = <<"A">>)
         /\ (result = "returned" => state = <<"Z">>)

\* C6 witness: run() started in A, passed through the default halting label
\* "0" without stopping, and returned in Z.
C6_Witness ==
    /\ IsPrefix(HeaderBoth, file)
    /\ result = "returned"
    /\ path = << <<"A">>, <<"0">>, <<"Z">> >>

\* C7: right after a tape assignment current_state is the initial label,
\* head, step_count and head_move_count are 0, path is [initial label],
\* last_rule is none and the tape holds exactly the new input.
C7_AssignResetsEverything ==
    call.op = "tape"
      => /\ state = STATE_INIT
         /\ head = 0
         /\ stepc = 0
         /\ head_moves = 0
         /\ path = <<STATE_INIT>>
         /\ rule = None
         /\ DOMAIN tape = 0..(Len(call.arg) - 1)
         /\ \A p \in DOMAIN tape : tape[p] = <<call.arg[p + 1]>>

\* C7 witness: a non-empty tape was just assigned to a machine whose initial
\* label was set by the rule file.
C7_Witness ==
    /\ call.op = "tape"
    /\ call.arg # <<>>
    /\ STATE_INIT = <<"A">>
    /\ pc = "idle"

(***************************************************************************)
(* _read_rules run on its own, one character of the file per step.         *)
(***************************************************************************)
\* the pieces the rule-file texts are put together from
ChunkPool ==
    { <<"a", " ", "0", " ", "*", " ">>,
      <<" ", "1", " ", "-", "1">>,
      <<"1">>,
      <<"K">>,
      <<":">>,
      <<"#">>,
      <<"\n">> }

Texts ==
    { Concat(cs) : cs \in UNION { [1..n -> ChunkPool] : n \in 0..MaxChunks } }

\* no machine exists while only the reader runs
MachineOff ==
    /\ file = <<>>
    /\ rules = <<>>
    /\ MachineDefaults
    /\ pc = "off"
    /\ call = [op |-> "none", arg |-> <<>>]
    /\ result = "none"
    /\ exc_value = None

ReaderStart ==
    /\ text \in Texts
    /\ pos = 0
    /\ reader = ReaderInit
    /\ outcome = [kind |-> "reading"]
    /\ MachineOff

\* one iteration of the inner loop: the next character of the file
ReadChar ==
    /\ outcome.kind = "reading"
    /\ pos < Len(text)
    /\ pos' = pos + 1
    /\ reader' = ReadOne(reader, text[pos + 1])
    /\ UNCHANGED <<text, outcome>>
    /\ UNCHANGED engineVars

\* the loops are over: `eof = True; state_reader()`
EndOfFile ==
    /\ outcome.kind = "reading"
    /\ pos = Len(text)
    /\ LET e == AtEof(reader)
       IN  /\ reader' = e.s
           /\ outcome' = IF e.kind = "NameError" THEN [kind |-> "NameError"]
                         ELSE [kind |-> "flushed"]
    /\ UNCHANGED <<text, pos>>
    /\ UNCHANGED engineVars

\* the check of the symbol count and the return
CheckCount ==
    /\ outcome.kind = "flushed"
    /\ outcome' = Validate(reader)
    /\ UNCHANGED <<text, pos, reader>>
    /\ UNCHANGED engineVars

ReaderNext == ReadChar \/ EndOfFile \/ CheckCount

ReaderSpec == ReaderStart /\ [][ReaderNext]_vars

(***************************************************************************)
(* Properties of the reader, checked under ReaderSpec.                     *)
(***************************************************************************)
\* the longest suffix of t made of characters that satisfy Ok
LongestSuffix(t, Ok(_)) ==
    LET K == {k \in 0..Len(t) :
                 \A i \in (Len(t) - k + 1)..Len(t) : Ok(t[i])}
        m == CHOOSE k \in K : \A j \in K : j <= k
    IN  SubSeq(t, Len(t) - m + 1, Len(t))

\* the part of the file read so far
TextRead == SubSeq(text, 1, pos)

\* a text without configuration pairs and comments
IsPlain(t) == \A i \in 1..Len(t) : t[i] \notin {":", "#"}

\* first and last positions of the maximal runs of symbol characters
RunStarts(t) ==
    {i \in 1..Len(t) :
        IsSymbolChar(t[i]) /\ (i = 1 \/ ~IsSymbolChar(t[i - 1]))}
RunEnds(t) ==
    {i \in 1..Len(t) :
        IsSymbolChar(t[i]) /\ (i = Len(t) \/ ~IsSymbolChar(t[i + 1]))}

\* the k-th smallest element of a set of numbers
Kth(S, k) == CHOOSE x \in S : Cardinality({y \in S : y <= x}) = k

\* the maximal runs of symbol characters of t, in text order
Runs(t) ==
    [k \in 1..Cardinality(RunStarts(t)) |->
        SubSeq(t, Kth(RunStarts(t), k), Kth(RunEnds(t), k))]

\* the symbols stored so far, in the order they were stored
Stored(r) == Concat(r.rules) \o r.tup_buf

ReaderDone == outcome.kind \in {"IncorrectSymbolCount", "returned"}

C8_State ==
    LET n == Len(Stored(reader))
    IN  /\ reader.symc = n
        /\ outcome.kind = "IncorrectSymbolCount"
             => outcome.count = n /\ n % 5 # 0
        /\ outcome.kind = "returned" => n % 5 = 0
        /\ (ReaderDone /\ IsPlain(text)) => n = Cardinality(RunEnds(text))

C8_Action ==
    (reader.state = "cfg" \/ reader'.state = "cfg")
      => reader'.symc = reader.symc

\* C8: the reader raises IncorrectSymbolCount(n) exactly when the number n
\* of symbols it has stored is not a multiple of five, n being that number
\* (the number of runs of symbol characters in a text without pairs and
\* comments); reading a configuration key or value never changes the count.
C8_SymbolCountValidated == []C8_State /\ [][C8_Action]_vars

\* C8 witness: a file with seven symbols was refused with count 7.
C8_Witness ==
    /\ outcome.kind = "IncorrectSymbolCount"
    /\ outcome.count = 7
    /\ Len(reader.rules) = 1
    /\ Len(reader.tup_buf) = 2

C9_State ==
    /\ \A i \in 1..Len(reader.rules) : Len(reader.rules[i]) = 5
    /\ Len(reader.tup_buf) < 5
    /\ (reader.state = "std" /\ ~reader.eof)
         => reader.sym_buf = LongestSuffix(TextRead, IsSymbolChar)
    /\ outcome.kind = "returned"
         => /\ outcome.rules = reader.rules
            /\ reader.tup_buf = <<>>
            /\ 5 * Len(outcome.rules) = reader.symc
            /\ IsPlain(text) => Concat(outcome.rules) = Runs(text)

C9_Action ==
    \/ Stored(reader') = Stored(reader)
    \/ /\ reader.state = "std"
       /\ reader.sym_buf # <<>>
       /\ Stored(reader') = Append(Stored(reader), reader.sym_buf)

\* C9: the rules returned are the symbols read, in file order, cut into
\* consecutive groups of five: every completed symbol is appended once to
\* the symbols stored, nothing else changes them, every rule has five
\* fields and an accepted file leaves no incomplete group.
C9_RulesAreGroupsOfFive == []C9_State /\ [][C9_Action]_vars

\* C9 witness: a file of ten symbols was accepted as two rules.
C9_Witness ==
    /\ outcome.kind = "returned"
    /\ Len(outcome.rules) = 2
    /\ outcome.rules[1] # outcome.rules[2]

\* the step reads the ':' that ends a pending symbol
KeyRead ==
    /\ pos' = pos + 1
    /\ text[pos'] = ":"
    /\ reader.state = "std"
    /\ reader.sym_buf # <<>>

\* the step reads the delimiter, or meets the end of input, that ends a
\* pending configuration value
ValueEnd ==
    /\ reader.state = "cfg"
    /\ reader.sym_buf # <<>>
    /\ \/ pos' = pos + 1 /\ text[pos'] \in SpaceChars \cup {":"}
       \/ reader'.eof /\ ~reader.eof

C10_State ==
    /\ (reader.state = "cfg" /\ ~reader.eof)
         => reader.sym_buf = LongestSuffix(TextRead, IsValueChar)
    /\ outcome.kind = "returned" => outcome.cfg = reader.cfg

C10_Action ==
    /\ KeyRead
         => /\ reader'.state = "cfg"
            /\ reader'.cfg_buf = Lower(LongestSuffix(TextRead, IsSymbolChar))
            /\ reader'.sym_buf = <<>>
    /\ ValueEnd
         => /\ reader'.state = "std"
            /\ DOMAIN reader'.cfg = DOMAIN reader.cfg \cup {reader.cfg_buf}
            /\ reader'.cfg[reader.cfg_buf] = reader.sym_buf
            /\ \A k \in DOMAIN reader.cfg \ {reader.cfg_buf} :
                   reader'.cfg[k] = reader.cfg[k]
    /\ ~ValueEnd => reader'.cfg = reader.cfg
    /\ (KeyRead \/ reader.state = "cfg") => Stored(reader') = Stored(reader)
                                            /\ reader'.symc = reader.symc

\* C10: a symbol followed by ':' becomes, lowercased, the pending key; the
\* value that follows is bound to it in the mapping when it ends, replacing
\* an earlier value of the same key and nothing else; neither is counted as
\* a symbol or stored in a rule, wherever the pair stands.
C10_ConfigPairs == []C10_State /\ [][C10_Action]_vars

\* C10 witness: the pair K:1 stood between the third and the fourth symbol
\* of a rule; the rule is complete without it and the mapping has k -> 1.
C10_Witness ==
    /\ outcome.kind = "returned"
    /\ Len(text) >= 9
    /\ SubSeq(text, 7, 9) = <<"K", ":", "1">>
    /\ outcome.rules =
         << << <<"a">>, <<"0">>, <<"*">>, <<"1">>, <<"-", "1">> >> >>
    /\ DOMAIN outcome.cfg = {<<"k">>}
    /\ outcome.cfg[<<"k">>] = <<"1">>

\* the step reads a '#' while the reader is in symbol mode
HashRead ==
    /\ pos' = pos + 1
    /\ text[pos'] = "#"
    /\ reader.state = "std"

\* the symbol pending in the buffer, as the list of symbols it completes to
Pending(r) == IF r.sym_buf = <<>> THEN <<>> ELSE <<r.sym_buf>>

\* C11: a '#' read in symbol mode starts a comment whether or not a symbol
\* is pending: the pending symbol is stored as it stands and the reader is
\* in comment mode; from there every character up to the newline leaves the
\* stored symbols, the buffers, the count and the mapping alone, and the
\* newline returns the reader to symbol mode.
C11_HashBeginsComment ==
    [][ /\ HashRead
          => /\ reader'.state = "cmt"
             /\ reader'.sym_buf = <<>>
             /\ Stored(reader') = Stored(reader) \o Pending(reader)
             /\ reader'.cfg = reader.cfg
        /\ (reader.state = "cmt" /\ pos' = pos + 1)
          => /\ reader'.state = IF text[pos'] = "\n" THEN "std" ELSE "cmt"
             /\ Stored(reader') = Stored(reader)
             /\ reader'.sym_buf = reader.sym_buf
             /\ reader'.symc = reader.symc
             /\ reader'.cfg = reader.cfg ]_vars

(***************************************************************************)
(* Further properties of the machine, checked under Spec.                  *)
(***************************************************************************)
\* the body of step() runs in this step of the machine: a caller's step()
\* or one iteration of the loop of run()
StepRuns ==
    \/ pc = "idle" /\ call'.op = "step"
    \/ pc = "run" /\ RunLoopTest

\* C12: step() on a tape that holds no symbol, whether the empty string was
\* assigned or no tape ever was, raises TapeBlank whatever the table and the
\* current state are and changes nothing, the step counter included, so the
\* rule lookup has not run; RuleNotFound is never the outcome on such a tape.
C12_BlankTapeFailsFirst ==
    /\ [](result = "RuleNotFound" => ~TapeIsBlank(tape))
    /\ [][(StepRuns /\ TapeIsBlank(tape))
            => /\ result' = "TapeBlank"
               /\ exc_value' = None
               /\ UNCHANGED <<state, head, rule, tape, stepc, head_moves,
                              path>>]_vars

\* C12 witness: the empty string was assigned, step() raised TapeBlank, and
\* the table has no rule for the current state and the blank a lookup on
\* that tape would have scanned.
C12_Witness ==
    /\ result = "TapeBlank"
    /\ call.op = "step"
    /\ path = <<STATE_INIT>>
    /\ TapeIsBlank(tape)
    /\ ~find_rule(rules, state, BLANK).found

\* some rule of the table is for state st and symbol scan or the wildcard
SomeRuleFor(st, scan) ==
    \E i \in 1..Len(rules) :
        rules[i][1] = st /\ rules[i][2] \in {scan, WILDCARD}

\* C13: find_rule(state, symbol) raises RuleNotFound exactly when no rule of
\* the table is for that state and that symbol or the wildcard, and the
\* exception carries the pair (state, symbol); a step() on a tape with
\* symbols ends with that very exception, for the current state and the
\* scanned symbol, exactly when the lookup fails.
C13_RuleNotFoundCarriesPair ==
    /\ [](\A st \in Labels, scan \in Scans :
             LET f == find_rule(rules, st, scan)
             IN  /\ ~f.found <=> ~SomeRuleFor(st, scan)
                 /\ ~f.found => f.value = <<st, scan>>)
    /\ [][(StepRuns /\ ~TapeIsBlank(tape))
            => LET scan == TapeGet(tape, head)
               IN  /\ result' = "RuleNotFound" <=> ~SomeRuleFor(state, scan)
                   /\ exc_value' = IF SomeRuleFor(state, scan) THEN None
                                   ELSE <<state, scan>>]_vars

\* C13 witness: the second step() found no rule for the state and the symbol
\* the first one led to, and the exception names the two, which differ.
C13_Witness ==
    /\ result = "RuleNotFound"
    /\ stepc = 2
    /\ Len(path) = 2
    /\ exc_value = <<state, TapeGet(tape, head)>>
    /\ state # TapeGet(tape, head)
    /\ ~SomeRuleFor(state, TapeGet(tape, head))

(***************************************************************************)
(* The unary increment machine: the machine constructed with the two-rule  *)
(* table and run on strings of '1'.                                        *)
(***************************************************************************)
UnaryRules ==
    << << <<"1">>, <<"1">>, <<"1">>, <<"1">>, <<"1">> >>,
       << <<"1">>, <<"_">>, <<"0">>, <<"1">>, <<"0">> >> >>

\* the string of n symbols '1'
Ones(n) == [i \in 1..n |-> "1"]

UnaryTapes == {Ones(n) : n \in 0..MaxOnes}

\* the machine constructed with the table, after `turing.tape = value`
UnaryInit ==
    /\ ReaderIdle
    /\ file = <<>>
    /\ rules = UnaryRules
    /\ STATE_INIT = DEFAULT_STATE_INIT
    /\ STATE_HALT = DEFAULT_STATE_HALT
    /\ \E value \in UnaryTapes :
          /\ tape = TapeNew(value)
          /\ call = [op |-> "tape", arg |-> value]
    /\ state = DEFAULT_STATE_INIT
    /\ head = 0
    /\ rule = None
    /\ stepc = 0
    /\ head_moves = 0
    /\ path = <<DEFAULT_STATE_INIT>>
    /\ pc = "idle"
    /\ result = "none"
    /\ exc_value = None

\* a run on n symbols takes n + 1 steps
UnaryStep == StepWithin(MaxOnes + 1)
UnaryRunStep == RunStepWithin(MaxOnes + 1)

UnaryNext ==
    \/ \E value \in UnaryTapes : AssignTape(value)
    \/ UnaryStep
    \/ RunCall
    \/ UnaryRunStep
    \/ RunReturn

UnarySpec == UnaryInit /\ [][UnaryNext]_vars

\* run() is sequential code: once called, its loop goes on testing and
\* stepping until it returns or step() raises
UnaryFairSpec ==
    UnarySpec /\ WF_vars(UnaryRunStep) /\ WF_vars(RunReturn)

\* a tape of n symbols '1' has just been assigned and run() is called
UnaryRunCalled(n) ==
    /\ pc = "run"
    /\ rules = UnaryRules
    /\ tape = TapeNew(Ones(n))
    /\ stepc = 0
    /\ path = << <<"1">> >>

\* run() has returned on the incremented tape
UnaryRunReturned(n) ==
    /\ pc = "idle"
    /\ result = "returned"
    /\ tape = TapeNew(Ones(n + 1))
    /\ state = <<"0">>
    /\ stepc = n + 1
    /\ head_moves = n
    /\ head = n

\* C14: with the table [("1","1","1","1",+1), ("1","_","0","1",0)] and a
\* tape of n >= 1 symbols '1' just assigned, a call of run() eventually
\* returns with n + 1 symbols '1' on the tape, the state "0", n + 1 steps
\* counted, n head moves counted and the head on cell n.
C14_UnaryIncrement ==
    \A n \in 1..MaxOnes : UnaryRunCalled(n) ~> UnaryRunReturned(n)

\* C14 witness: run() has returned on the input "111": the tape reads
\* "1111" after 4 steps and 3 head moves.
C14_Witness ==
    /\ call = [op |-> "run", arg |-> <<>>]
    /\ result = "returned"
    /\ rules = UnaryRules
    /\ tape = TapeNew(Ones(4))
    /\ state = <<"0">>
    /\ stepc = 4
    /\ head_moves = 3
    /\ head = 3
    /\ path = << <<"1">>, <<"1">>, <<"1">>, <<"1">>, <<"0">> >>

(***************************************************************************)
(* Further properties of the reader, checked under ReaderSpec.             *)
(***************************************************************************)
\* _read_rules has ended, by a return or by an exception
ReaderEnded ==
    outcome.kind \in {"returned", "IncorrectSymbolCount", "NameError"}

\* C15: whatever the text is, the empty one included, _read_rules ends on it
\* as it ends on the text with one newline appended: the same rules and
\* mapping returned or the same IncorrectSymbolCount raised; on the empty
\* text it returns no rule and an empty mapping.
C15_EofFlushIsNewline ==
    ReaderEnded
      => /\ outcome = _read_rules(Append(text, "\n"))
         /\ text = <<>>
              => outcome = [kind |-> "returned", rules |-> <<>>,
                            cfg |-> EmptyDict]

\* C17: the reader goes from symbol mode to configuration mode only on a
\* ':' read while a symbol is pending; a ':' read with the buffer empty
\* leaves the reader in symbol mode with nothing changed, like any other
\* delimiter, so every key of the mapping is a non-empty token.
C17_ColonNeedsKey ==
    /\ [](\A k \in DOMAIN reader.cfg : k # <<>>)
    /\ [][(pos' = pos + 1 /\ reader.state = "std")
            => /\ reader'.state = "cfg"
                 => (text[pos'] = ":" /\ reader.sym_buf # <<>>)
               /\ (text[pos'] = ":" /\ reader.sym_buf = <<>>)
                 => /\ reader'.state = "std"
                    /\ reader'.cfg_buf = reader.cfg_buf
                    /\ reader'.sym_buf = <<>>
                    /\ Stored(reader') = Stored(reader)
                    /\ reader'.symc = reader.symc]_vars

(***************************************************************************)
(* Properties of the counters of the machine, checked under Spec.          *)
(***************************************************************************)
\* C16: once a tape was assigned, whatever calls of step() followed and
\* however they ended, stepc is the number of steps that completed, which
\* is len(path) - 1; path starts with the initial label and ends with the
\* current state.
C16_StepCountIsPathLength ==
    path # <<>>
      => /\ stepc = Len(path) - 1
         /\ path[1] = STATE_INIT
         /\ path[Len(path)] = state

\* C18: a step() that completes adds one to head_moves when the direction
\* of the rule it applied is not zero and leaves it alone when it is zero; a
\* step() that fails leaves it alone; so head_moves counts the completed
\* steps of non-zero direction and is at most the number of completed steps,
\* len(path) - 1.
C18_HeadMovesCounted ==
    /\ [](IF path = <<>> THEN head_moves = 0
          ELSE head_moves <= Len(path) - 1)
    /\ [][StepRuns
            => head_moves' =
                 IF result' # "none" THEN head_moves
                 ELSE IF PyInt(rule'[5]).val # 0 THEN head_moves + 1
                 ELSE head_moves]_vars

\* C18 witness: two steps completed, one by a rule of direction zero and one
\* by a rule of non-zero direction, and head_moves is 1.
C18_Witness ==
    /\ call.op = "step"
    /\ result = "none"
    /\ Len(path) = 3
    /\ stepc = 2
    /\ head_moves = 1
    /\ PyInt(rule[5]).val # 0

(***************************************************************************)
(* Properties of the failures of step(), checked under Spec.               *)
(***************************************************************************)
\* C19: step() called while the current state is the halting label, on a
\* tape with symbols, looks up a rule for the halting label and the scanned
\* symbol like any other step: it raises RuleNotFound for that pair when
\* the table has none, and otherwise applies the first one: the rule is
\* recorded, the cell written and, the direction being an integer, the
\* state entered and appended to path.
C19_HaltedStepLooksUp ==
    [][(pc = "idle" /\ call'.op = "step" /\ state = STATE_HALT
           /\ ~TapeIsBlank(tape))
         => LET scan == TapeGet(tape, head)
                M == {i \in 1..Len(rules) :
                         RuleMatches(rules[i], STATE_HALT, scan)}
                first == rules[CHOOSE i \in M : \A j \in M : i <= j]
            IN  IF M = {}
                  THEN /\ result' = "RuleNotFound"
                       /\ exc_value' = <<STATE_HALT, scan>>
                  ELSE /\ result' # "RuleNotFound"
                       /\ rule' = first
                       /\ tape' = TapeSet(tape, head, Replace(first, scan))
                       /\ PyInt(first[5]).ok
                            => /\ result' = "none"
                               /\ state' = first[3]
                               /\ path' = Append(path, first[3])]_vars

\* C19 witness: a step() led to the halting state and the next step(),
\* called all the same, applied a rule for the halting state.
C19_Witness ==
    /\ call.op = "step"
    /\ result = "none"
    /\ Len(path) >= 3
    /\ path[Len(path) - 1] = STATE_HALT
    /\ rule[1] = STATE_HALT
    /\ stepc = Len(path) - 1

\* C20: whatever table the reader returned and whatever the tape, a step()
\* either completes or raises TapeBlank or RuleNotFound, and when it raises
\* it has written neither the tape nor the state, the head, the recorded
\* rule, the head moves or the path.
C20_StepCompletesOrFailsClean ==
    [][StepRuns
         => /\ result' \in {"none", "TapeBlank", "RuleNotFound"}
            /\ result' # "none"
                 => UNCHANGED <<tape, state, head, rule, head_moves,
                                path>>]_vars

====
